---- MODULE Spec2Model ----
(***************************************************************************)
(* Model of useReflectAttribute (src/unnamed/part_000): synchronisation    *)
(* between Vue refs ("cells") and the attributes of one element.           *)
(*                                                                         *)
(* The host is modelled by what the code relies on:                        *)
(*   - a FIFO microtask queue holding Vue's scheduler flush ("flush"), the *)
(*     nextTick callback of onMounted ("tick") and the mutation observer   *)
(*     notification ("observer");                                          *)
(*   - setTimeout(..., 0) callbacks, which run only when the microtask     *)
(*     queue is empty;                                                     *)
(*   - application code, which may write a cell or mutate an attribute     *)
(*     between any two of those steps.                                     *)
(***************************************************************************)
EXTENDS Integers, Sequences, FiniteSets, TLC

(***************************************************************************)
(* JavaScript values.  Every value is a record of the same shape, so that  *)
(* values of different JavaScript types can be compared: k is the type     *)
(* tag, s the characters of a string, n the number (or 0/1 for a boolean). *)
(***************************************************************************)
Null == [k |-> "null", s |-> <<>>, n |-> 0]

Undefined == [k |-> "undefined", s |-> <<>>, n |-> 0]

NaN == [k |-> "nan", s |-> <<>>, n |-> 0]

Str(chars) == [k |-> "string", s |-> chars, n |-> 0]

Num(i) == [k |-> "number", s |-> <<>>, n |-> i]

Bool(b) == [k |-> "boolean", s |-> <<>>, n |-> IF b THEN 1 ELSE 0]

True == Bool(TRUE)

False == Bool(FALSE)

\* String literals used by the model, as character sequences.
EmptyText == <<>>

DefaultText == <<"d","e","f","a","u","l","t"," ","t","e","x","t">>

NewText == <<"N","E","W"," ","T","E","X","T">>

Text42 == <<"4","2">>

Text7 == <<"7">>

TextAbc == <<"a","b","c">>

Text042 == <<"0","4","2">>

TextYes == <<"y","e","s">>

DigitChars == <<"0","1","2","3","4","5","6","7","8","9">>

IsDigit(c) == \E i \in 1..10 : DigitChars[i] = c

DigitValue(c) == (CHOOSE i \in 1..10 : DigitChars[i] = c) - 1

\* typeof v, and the explicit null / undefined cases of isType.
isType(v, expectedType) ==
    IF expectedType = "null" THEN v.k = "null"
    ELSE IF expectedType = "undefined" THEN v.k = "undefined"
    ELSE v.k = expectedType

\* a !== b (strict inequality; NaN differs from itself).
StrictNotEqual(a, b) == a.k = "nan" \/ b.k = "nan" \/ a # b

\* Vue's hasChanged(a, b) is !Object.is(a, b).
hasChanged(a, b) == a # b

RECURSIVE TrimLeft(_)
TrimLeft(chars) ==
    IF chars # <<>> /\ Head(chars) = " " THEN TrimLeft(Tail(chars)) ELSE chars

RECURSIVE TrimRight(_)
TrimRight(chars) ==
    IF chars # <<>> /\ chars[Len(chars)] = " "
    THEN TrimRight(SubSeq(chars, 1, Len(chars) - 1))
    ELSE chars

RECURSIVE DecimalValue(_)
DecimalValue(chars) ==
    IF chars = <<>> THEN 0
    ELSE 10 * DecimalValue(SubSeq(chars, 1, Len(chars) - 1))
         + DigitValue(chars[Len(chars)])

\* Number(string) for the strings of the model: surrounding blanks are
\* dropped, the empty string is 0, a run of decimal digits is its value,
\* anything else is NaN.
StringToNumber(chars) ==
    LET t == TrimRight(TrimLeft(chars))
    IN  IF t = <<>> THEN Num(0)
        ELSE IF \A i \in 1..Len(t) : IsDigit(t[i]) THEN Num(DecimalValue(t))
        ELSE NaN

\* Number(v).
ToNumber(v) ==
    CASE v.k = "number" -> v
      [] v.k = "string" -> StringToNumber(v.s)
      [] v.k = "boolean" -> Num(v.n)
      [] v.k = "null" -> Num(0)
      [] OTHER -> NaN

RECURSIVE NaturalToChars(_)
NaturalToChars(i) ==
    IF i < 10 THEN <<DigitChars[i + 1]>>
    ELSE NaturalToChars(i \div 10) \o <<DigitChars[(i % 10) + 1]>>

\* String(v).
ToStringChars(v) ==
    CASE v.k = "string" -> v.s
      [] v.k = "number" -> NaturalToChars(v.n)
      [] v.k = "boolean" -> IF v.n = 1 THEN <<"t","r","u","e">>
                                       ELSE <<"f","a","l","s","e">>
      [] v.k = "null" -> <<"n","u","l","l">>
      [] v.k = "undefined" -> <<"u","n","d","e","f","i","n","e","d">>
      [] OTHER -> <<"N","a","N">>

\* Boolean(v).
ToBoolean(v) ==
    CASE v.k = "boolean" -> v
      [] v.k = "string" -> Bool(v.s # <<>>)
      [] v.k = "number" -> Bool(v.n # 0)
      [] OTHER -> False


(***************************************************************************)
(* Bounds of the exploration.                                              *)
(***************************************************************************)
\* Inputs over a whole run: writes of the application to cells and
\* mutations of the element's attributes by external code, together.
MaxInputs == 3

(***************************************************************************)
(* The inputs: declaration lists, initial cells, initial attributes.       *)
(***************************************************************************)
Decl(a, r, t, rf) == [attribute |-> a, ref |-> r, type |-> t, reflect |-> rf]

\* Lists with a declaration that lacks its ref, one that lacks its attribute
\* name (an empty name and a ref of 0 stand for the missing fields), and a
\* list without any valid declaration.
InvalidDeclLists ==
    { << Decl("value", 1, "boolean", "unset"),
         Decl("other", 0, "unset", "false") >>,
      << Decl("", 1, "number", "unset"),
         Decl("other", 2, "unset", "unset") >>,
      << Decl("", 1, "unset", "unset"),
         Decl("other", 0, "unset", "false") >> }

\* options.attributes: the first declaration ranges over every type, with
\* reflect left to its default (true) or switched off; the second one is a
\* plain one-way string binding on another attribute.
DeclLists ==
    { << Decl("value", 1, t, rf), Decl("other", 2, "unset", "false") >> :
        t \in {"unset", "boolean", "number"}, rf \in {"unset", "false"} }
    \cup InvalidDeclLists

Names == {"value", "other"}

Refs == {1, 2}

DeclType(d) == IF d.type = "unset" THEN "string" ELSE d.type

\* What the application may hold in / write to a cell of a binding type.
CellValues(type) ==
    CASE type = "string" -> {Null, Str(DefaultText), Str(NewText)}
      [] type = "boolean" -> {True, False}
      [] type = "number" -> {Null, Num(42), Num(7)}

\* What external code may write to the attribute of a binding type
\* (Null: removeAttribute).
AttrValues(type) ==
    CASE type = "string" -> {Null, Str(NewText), Str(DefaultText)}
      [] type = "boolean" -> {Null, Str(EmptyText)}
      [] type = "number" -> {Null, Str(Text42), Str(TextAbc)}

\* The cell's value when the composable is called.
InitialCellValues(type) ==
    CASE type = "string" -> {Null, Str(DefaultText)}
      [] type = "boolean" -> {False, True}
      [] type = "number" -> {Null, Num(42)}

\* The attribute as authored on the element before mount.
InitialAttrValues(type) ==
    CASE type = "string" -> {Null, Str(NewText)}
      [] type = "boolean" -> {Null, Str(EmptyText)}
      [] type = "number" -> {Null, Str(Text42)}

(***************************************************************************)
(* State.                                                                  *)
(***************************************************************************)
VARIABLES
    phase,                \* "created", "setup", "inert", "mounted", "unmounted"
    tick,                 \* options.tick ?? 'after'
    decls,                \* options.attributes
    attributeConfigMap,   \* the Map, as its entries in insertion order
    cell,                 \* ref index -> ref.value
    attr,                 \* attribute name -> raw value, Null when absent
    targetRef,            \* targetRef.value is the element (TRUE) or null
    watchers,             \* config indexes whose watcher is active
    watchOld,             \* config index -> the watcher's oldValue
    jobs,                 \* config indexes whose watcher job is queued
    microtasks,           \* FIFO queue of "tick", "flush", "observer"
    records,              \* the observer's pending MutationRecords
    observer,             \* the MutationObserver is connected
    isUpdatingDomFromRef, \* the self-write flag
    timeouts,             \* pending setTimeout(() => flag = false, 0)
    initialSync,          \* history of the step just taken: the initial sync
    synced,               \* history of the step just taken: watcher callbacks
    handled,              \* history of the step just taken: observer records
    registered,           \* history of the step just taken: registration
    appWrites,            \* number of application writes so far
    extMutations          \* number of external mutations so far

vars == << phase, tick, decls, attributeConfigMap, cell, attr, targetRef,
           watchers, watchOld, jobs, microtasks, records, observer,
           isUpdatingDomFromRef, timeouts, initialSync, synced, handled,
           registered, appWrites, extMutations >>

(***************************************************************************)
(* makeAttributeConfigMap                                                  *)
(***************************************************************************)
\* The index of the entry for an attribute name, 0 when there is none.
LookupIndex(map, name) ==
    IF \E i \in 1..Len(map) : map[i].attribute = name
    THEN CHOOSE i \in 1..Len(map) : map[i].attribute = name
    ELSE 0

\* A variant of the coercion that does not exempt null.
CoerceInitialNullToo(type, v) ==
    IF type = "boolean" /\ ~isType(v, "boolean") /\ ~isType(v, "undefined")
    THEN ToBoolean(v)
    ELSE IF type = "number" /\ ~isType(v, "boolean")
                            /\ ~isType(v, "undefined")
    THEN LET coercedValue == ToNumber(v)
         IN  IF coercedValue.k = "nan" THEN Null ELSE coercedValue
    ELSE v

\* Lines 67-72: the in-place coercion of the ref's value.
CoerceInitial(type, v) ==
    IF type = "boolean" /\ ~isType(v, "boolean") /\ ~isType(v, "null")
                        /\ ~isType(v, "undefined")
    THEN ToBoolean(v)
    ELSE IF type = "number" /\ ~isType(v, "boolean") /\ ~isType(v, "null")
                            /\ ~isType(v, "undefined")
    THEN LET coercedValue == ToNumber(v)
         IN  IF coercedValue.k = "nan" THEN Null ELSE coercedValue
    ELSE v

EffectiveConfig(config) ==
    [attribute |-> config.attribute,
     ref |-> config.ref,
     type |-> IF config.type = "unset" THEN "string" ELSE config.type,
     reflect |-> IF config.reflect = "unset" THEN TRUE
                 ELSE config.reflect = "true"]

\* A variant of the validity test that asks for the ref only.
IsValidConfigByRef(config) == config.ref # 0

\* Line 60: config && config.attribute && config.ref.
IsValidConfig(config) == config.attribute # "" /\ config.ref # 0

\* attributes.forEach(...): returns the map and the cells after coercion.
RECURSIVE makeAttributeConfigMap(_, _, _)
makeAttributeConfigMap(attributes, map, cells) ==
    IF attributes = <<>> THEN [map |-> map, cells |-> cells]
    ELSE LET config == Head(attributes)
         IN  IF IsValidConfig(config)
             THEN LET effectiveConfig == EffectiveConfig(config)
                      k == LookupIndex(map, effectiveConfig.attribute)
                  IN  makeAttributeConfigMap(
                          Tail(attributes),
                          IF k = 0 THEN Append(map, effectiveConfig)
                                   ELSE [map EXCEPT ![k] = effectiveConfig],
                          [cells EXCEPT ![config.ref] =
                              CoerceInitial(effectiveConfig.type, @)])
             ELSE makeAttributeConfigMap(Tail(attributes), map, cells)


(***************************************************************************)
(* The conversions between cell values and attribute states.               *)
(***************************************************************************)
\* Lines 148 and 203: newValue === true.
DesiredDomPresence(newValue) == newValue = True

\* A variant that stringifies null and undefined too.
DesiredDomValueOfAnything(newValue) == Str(ToStringChars(newValue))

\* Lines 164 and 226: null for null / undefined, String(newValue) otherwise.
DesiredDomValue(newValue) ==
    IF newValue = Null \/ newValue = Undefined THEN Null
    ELSE Str(ToStringChars(newValue))

\* element.hasAttribute(name), from the raw value.
HasAttribute(raw) == raw # Null

\* Lines 241-248: the interpretation of the attribute in the initial pull.
InterpretInitial(type, raw) ==
    IF type = "boolean" THEN Bool(HasAttribute(raw))
    ELSE IF type = "number"
    THEN LET numValue == ToNumber(raw)
         IN  IF raw = Null THEN Null
             ELSE IF numValue.k = "nan" THEN Null ELSE numValue
    ELSE raw

\* A variant that turns an absent attribute into the empty string.
InterpretMutationOrEmpty(type, raw) ==
    IF type = "boolean" THEN Bool(HasAttribute(raw))
    ELSE IF raw = Null THEN Str(EmptyText) ELSE raw

\* Lines 273-278: the interpretation of the attribute in the observer.
InterpretMutation(type, raw) ==
    IF type = "boolean" THEN Bool(HasAttribute(raw)) ELSE raw

\* Line 280: !isUpdatingDomFromRef && onAttributeChange && old !== new
\* (an onAttributeChange callback is always given in this model).
ShouldNotify(flag, oldValue, newValue) ==
    ~flag /\ StrictNotEqual(oldValue, newValue)

\* A variant that reflects whatever the flag says.
ReflectAlways(config) == TRUE

\* Lines 236 and 285: config.reflect === true.
ReflectEnabled(config) == config.reflect = TRUE

\* The attribute state a DOM write of the composable leaves: lines 154-158
\* and 205-209 (boolean), 170-174 and 228-232 (string, number).
WrittenAttr(type, value) ==
    IF type = "boolean"
    THEN IF DesiredDomPresence(value) THEN Str(EmptyText) ELSE Null
    ELSE DesiredDomValue(value)

\* A variant that writes without comparing.
NeedsDomWriteAlways(type, value, raw) == TRUE

\* Lines 151 and 167 (watcher), 204 and 227 (initial sync): whether the
\* element differs from what the cell asks for.
NeedsDomWrite(type, value, raw) ==
    IF type = "boolean"
    THEN HasAttribute(raw) # DesiredDomPresence(value)
    ELSE StrictNotEqual(raw, DesiredDomValue(value))

\* A MutationRecord; source and written are history fields (who wrote, and
\* the attribute's raw value right after that mutation).
MutationRecord(name, oldValue, source, written) ==
    [attributeName |-> name, oldValue |-> oldValue,
     source |-> source, written |-> written]

\* The jobs a write to ref r queues: the active watchers on that ref.
Triggered(map, active, r) ==
    { i \in active : i \in 1..Len(map) /\ map[i].ref = r }

\* A variant that never schedules anything.
EnqueueNothing(queue, task, needed) == queue

\* queueFlush / the observer notification: one entry of a kind at a time.
Enqueue(queue, task, needed) ==
    IF needed /\ ~(\E i \in 1..Len(queue) : queue[i] = task)
    THEN Append(queue, task) ELSE queue

(***************************************************************************)
(* mountedCallback: per config, install the watcher, push the cell to the  *)
(* element, pull it back when reflect is on; then connect the observer.    *)
(***************************************************************************)
\* A variant of the initial push that leaves an authored attribute alone.
InitialPushKeepsAuthored(type, initialRefValue, currentDomRawValue) ==
    IF HasAttribute(currentDomRawValue) THEN currentDomRawValue
    ELSE WrittenAttr(type, initialRefValue)

\* A variant of the initial push that never touches the element.
InitialPushSkipped(type, initialRefValue, currentDomRawValue) ==
    currentDomRawValue

\* Lines 189-234: the attribute after the initial push.
InitialPush(type, initialRefValue, currentDomRawValue) ==
    IF NeedsDomWrite(type, initialRefValue, currentDomRawValue)
    THEN WrittenAttr(type, initialRefValue)
    ELSE currentDomRawValue

\* Lines 236-253: the cell after the initial pull.
InitialPull(config, refValue, rawAfterPush) ==
    IF ReflectEnabled(config)
    THEN LET interpretedValueFromDom == InterpretInitial(config.type, rawAfterPush)
         IN  IF StrictNotEqual(refValue, interpretedValueFromDom)
             THEN interpretedValueFromDom ELSE refValue
    ELSE refValue

\* One iteration of attributeConfigMap.forEach (lines 139-254).
InitialSyncOne(st, map, i) ==
    LET config == map[i]
        active == st.watchers \cup {i}
        initialRefValue == st.cell[config.ref]
        currentDomRawValue == st.attr[config.attribute]
        pushed == InitialPush(config.type, initialRefValue, currentDomRawValue)
        pulled == InitialPull(config, initialRefValue, pushed)
    IN  [cell |-> [st.cell EXCEPT ![config.ref] = pulled],
         attr |-> [st.attr EXCEPT ![config.attribute] = pushed],
         watchers |-> active,
         watchOld |-> [st.watchOld EXCEPT ![i] = initialRefValue],
         records |-> IF observer /\ NeedsDomWrite(config.type, initialRefValue,
                                                  currentDomRawValue)
                     THEN Append(st.records,
                                 MutationRecord(config.attribute,
                                     currentDomRawValue, "initial", pushed))
                     ELSE st.records,
         jobs |-> IF hasChanged(pulled, initialRefValue)
                  THEN st.jobs \cup Triggered(map, active, config.ref)
                  ELSE st.jobs,
         log |-> Append(st.log,
                    [attribute |-> config.attribute,
                     cellBefore |-> initialRefValue,
                     attrBefore |-> currentDomRawValue,
                     attrAfter |-> pushed,
                     cellAfter |-> pulled])]

RECURSIVE InitialSyncFrom(_, _, _)
InitialSyncFrom(st, map, i) ==
    IF i > Len(map) THEN st
    ELSE InitialSyncFrom(InitialSyncOne(st, map, i), map, i + 1)

\* mountedCallback(target), with `queue` the microtasks left to run.  The
\* observer is created and connected last (lines 259-299), so the writes of
\* the loop are recorded only if an observer is connected already.
mountedCallback(queue) ==
    LET st == InitialSyncFrom(
                  [cell |-> cell, attr |-> attr, watchers |-> watchers,
                   watchOld |-> watchOld, records |-> records,
                   jobs |-> jobs, log |-> <<>>],
                  attributeConfigMap, 1)
    IN  /\ cell' = st.cell
        /\ attr' = st.attr
        /\ watchers' = st.watchers
        /\ watchOld' = st.watchOld
        /\ jobs' = st.jobs
        /\ initialSync' = st.log
        /\ records' = st.records
        /\ observer' = TRUE
        /\ microtasks' = Enqueue(Enqueue(queue, "observer",
                                         records = <<>> /\ st.records # <<>>),
                                 "flush", st.jobs # {})

(***************************************************************************)
(* Initial states and the lifecycle.                                       *)
(***************************************************************************)
Init ==
    /\ phase = "created"
    /\ tick \in {"before", "after"}
    /\ decls \in DeclLists
    /\ attributeConfigMap = <<>>
    /\ \E v \in InitialCellValues(DeclType(decls[1])) :
           cell = [r \in Refs |-> IF r = 1 THEN v ELSE Null]
    /\ \E a \in InitialAttrValues(DeclType(decls[1])) :
           attr = [name \in Names |-> IF name = "value" THEN a ELSE Null]
    /\ targetRef = TRUE
    /\ watchers = {}
    /\ watchOld = [i \in DOMAIN decls |-> Undefined]
    /\ jobs = {}
    /\ microtasks = <<>>
    /\ records = <<>>
    /\ observer = FALSE
    /\ isUpdatingDomFromRef = FALSE
    /\ timeouts = 0
    /\ initialSync = <<>>
    /\ synced = <<>>
    /\ handled = <<>>
    /\ registered = <<>>
    /\ appWrites = 0
    /\ extMutations = 0

\* The history of a registration: for each valid declaration, its cell's
\* value before and after makeAttributeConfigMap.
RECURSIVE Registration(_, _, _)
Registration(attributes, before, after) ==
    IF attributes = <<>> THEN <<>>
    ELSE LET config == Head(attributes)
             rest == Registration(Tail(attributes), before, after)
         IN  IF IsValidConfig(config)
             THEN << [attribute |-> config.attribute,
                      type |-> EffectiveConfig(config).type,
                      before |-> before[config.ref],
                      after |-> after[config.ref]] >> \o rest
             ELSE rest

\* useReflectAttribute(targetRef, options), lines 112-136: build the map;
\* with an empty map nothing is registered.
UseReflectAttribute ==
    /\ phase = "created"
    /\ LET made == makeAttributeConfigMap(decls, <<>>, cell)
       IN  /\ attributeConfigMap' = made.map
           /\ cell' = made.cells
           /\ phase' = IF Len(made.map) = 0 THEN "inert" ELSE "setup"
           /\ registered' = Registration(decls, cell, made.cells)
    /\ initialSync' = <<>>
    /\ synced' = <<>>
    /\ handled' = <<>>
    /\ UNCHANGED << tick, decls, attr, targetRef, watchers, watchOld, jobs,
                    microtasks, records, observer, isUpdatingDomFromRef,
                    timeouts, appWrites, extMutations >>

\* onMounted, lines 302-323, tick 'before': mountedCallback runs at once.
OnMountedBefore ==
    /\ phase = "setup"
    /\ targetRef
    /\ tick = "before"
    /\ phase' = "mounted"
    /\ mountedCallback(microtasks)
    /\ synced' = <<>>
    /\ handled' = <<>>
    /\ registered' = <<>>
    /\ UNCHANGED << tick, decls, attributeConfigMap, targetRef,
                    isUpdatingDomFromRef, timeouts, appWrites, extMutations >>

\* onMounted, tick 'after': nextTick(() => mountedCallback(target)).
OnMountedAfter ==
    /\ phase = "setup"
    /\ targetRef
    /\ tick = "after"
    /\ phase' = "mounted"
    /\ microtasks' = Append(microtasks, "tick")
    /\ initialSync' = <<>>
    /\ synced' = <<>>
    /\ handled' = <<>>
    /\ registered' = <<>>
    /\ UNCHANGED << tick, decls, attributeConfigMap, cell, attr, targetRef,
                    watchers, watchOld, jobs, records, observer,
                    isUpdatingDomFromRef, timeouts, appWrites, extMutations >>

\* The nextTick callback: mountedCallback(target) with the target captured
\* at mount.
NextTick ==
    /\ microtasks # <<>>
    /\ Head(microtasks) = "tick"
    /\ mountedCallback(Tail(microtasks))
    /\ synced' = <<>>
    /\ handled' = <<>>
    /\ registered' = <<>>
    /\ UNCHANGED << phase, tick, decls, attributeConfigMap, targetRef,
                    isUpdatingDomFromRef, timeouts, appWrites,
                    extMutations >>

\* onUnmounted, lines 325-331, together with Vue clearing the template ref:
\* the observer is disconnected (its pending records are dropped) and the
\* watchers installed so far are stopped.
OnUnmounted ==
    /\ phase = "mounted"
    /\ phase' = "unmounted"
    /\ targetRef' = FALSE
    /\ observer' = FALSE
    /\ records' = <<>>
    /\ watchers' = {}
    /\ initialSync' = <<>>
    /\ synced' = <<>>
    /\ handled' = <<>>
    /\ registered' = <<>>
    /\ UNCHANGED << tick, decls, attributeConfigMap, cell, attr, watchOld,
                    jobs, microtasks, isUpdatingDomFromRef, timeouts,
                    appWrites, extMutations >>


(***************************************************************************)
(* Outbound: the watcher callback (lines 143-182), run by Vue's flush.     *)
(***************************************************************************)
\* A variant of the write that schedules no deferred clear.
ScheduleNothing(pending) == pending

\* The finally blocks of lines 159-161 and 175-177: one more pending
\* setTimeout(() => { isUpdatingDomFromRef = false }, 0).
ScheduleClear(pending) == pending + 1

\* The callback of watcher i for newValue; st carries the element, the
\* observer's records, the flag and the pending timeouts.
WatchCallback(st, i, newValue) ==
    LET config == attributeConfigMap[i]
        attrName == config.attribute
        current == st.attr[attrName]
        write == targetRef /\ NeedsDomWrite(config.type, newValue, current)
        desired == WrittenAttr(config.type, newValue)
        entry == [attribute |-> attrName, newValue |-> newValue,
                  attached |-> targetRef, before |-> current,
                  after |-> IF write THEN desired ELSE current,
                  wrote |-> write]
    IN  IF write
        THEN [st EXCEPT !.attr[attrName] = desired,
                        !.records = IF observer
                                    THEN Append(@, MutationRecord(attrName,
                                             current, "watcher", desired))
                                    ELSE @,
                        !.flag = TRUE,
                        !.timeouts = ScheduleClear(@),
                        !.log = Append(@, entry)]
        ELSE [st EXCEPT !.log = Append(@, entry)]

\* The job of watcher i: nothing when the watcher was stopped, the callback
\* when the ref's value differs from the value the watcher saw last.
RunJob(st, i) ==
    LET newValue == cell[attributeConfigMap[i].ref]
    IN  IF i \notin watchers THEN st
        ELSE IF hasChanged(newValue, st.watchOld[i])
        THEN WatchCallback([st EXCEPT !.watchOld[i] = newValue], i, newValue)
        ELSE st

RECURSIVE RunJobsFrom(_, _)
RunJobsFrom(st, i) ==
    IF i > Len(attributeConfigMap) THEN st
    ELSE RunJobsFrom(IF i \in jobs THEN RunJob(st, i) ELSE st, i + 1)

\* Vue's flushJobs: every queued watcher job, in creation order.
FlushJobs ==
    /\ microtasks # <<>>
    /\ Head(microtasks) = "flush"
    /\ \E st \in { RunJobsFrom(
                     [attr |-> attr, records |-> records,
                      flag |-> isUpdatingDomFromRef, timeouts |-> timeouts,
                      watchOld |-> watchOld, log |-> <<>>], 1) } :
           /\ attr' = st.attr
           /\ records' = st.records
           /\ isUpdatingDomFromRef' = st.flag
           /\ timeouts' = st.timeouts
           /\ watchOld' = st.watchOld
           /\ synced' = st.log
           /\ microtasks' = Enqueue(Tail(microtasks), "observer",
                                    records = <<>> /\ st.records # <<>>)
    /\ jobs' = {}
    /\ initialSync' = <<>>
    /\ handled' = <<>>
    /\ registered' = <<>>
    /\ UNCHANGED << phase, tick, decls, attributeConfigMap, cell, targetRef,
                    watchers, observer, appWrites, extMutations >>

\* A variant in which a timer callback may run ahead of queued microtasks.
TaskMayRunAnytime == TRUE

\* setTimeout(..., 0) queues a task: the event loop runs it only once the
\* microtask queue is empty.
TaskMayRun == microtasks = <<>>

\* setTimeout(() => { isUpdatingDomFromRef = false }, 0), lines 160 and 176.
ClearFlag ==
    /\ timeouts > 0
    /\ TaskMayRun
    /\ isUpdatingDomFromRef' = FALSE
    /\ timeouts' = timeouts - 1
    /\ initialSync' = <<>>
    /\ synced' = <<>>
    /\ handled' = <<>>
    /\ registered' = <<>>
    /\ UNCHANGED << phase, tick, decls, attributeConfigMap, cell, attr,
                    targetRef, watchers, watchOld, jobs, microtasks, records,
                    observer, appWrites, extMutations >>

(***************************************************************************)
(* Inbound: the MutationObserver callback (lines 259-293).                 *)
(***************************************************************************)
\* One record of the batch; st carries the cells, the queued jobs and the
\* history of the batch.
HandleRecord(st, record) ==
    LET attributeName == record.attributeName
        k == LookupIndex(attributeConfigMap, attributeName)
        config == attributeConfigMap[k]
        oldValue == record.oldValue
        newValue == attr[attributeName]
        interpretedNewValue == InterpretMutation(config.type, newValue)
        notify == ShouldNotify(isUpdatingDomFromRef, oldValue, newValue)
        assign == /\ ReflectEnabled(config)
                  /\ StrictNotEqual(st.cell[config.ref], interpretedNewValue)
    IN  IF k = 0 THEN st
        ELSE [cell |-> IF assign
                       THEN [st.cell EXCEPT ![config.ref] = interpretedNewValue]
                       ELSE st.cell,
              jobs |-> IF assign
                       THEN st.jobs \cup Triggered(attributeConfigMap, watchers,
                                                   config.ref)
                       ELSE st.jobs,
              log |-> Append(st.log,
                         [attribute |-> attributeName,
                          source |-> record.source,
                          before |-> record.oldValue,
                          written |-> record.written,
                          flag |-> isUpdatingDomFromRef,
                          notified |-> notify,
                          oldValue |-> oldValue,
                          newValue |-> newValue,
                          interpreted |-> interpretedNewValue,
                          assigned |-> assign,
                          cellBefore |-> st.cell[config.ref]])]

RECURSIVE HandleRecords(_, _)
HandleRecords(st, rs) ==
    IF rs = <<>> THEN st
    ELSE HandleRecords(HandleRecord(st, Head(rs)), Tail(rs))

\* The observer's notification microtask: the callback gets the pending
\* records, if there are any; it returns at once when targetRef is null.
ObserverNotify ==
    /\ microtasks # <<>>
    /\ Head(microtasks) = "observer"
    /\ \E st \in { IF targetRef
                 THEN HandleRecords([cell |-> cell, jobs |-> jobs,
                                     log |-> <<>>], records)
                 ELSE [cell |-> cell, jobs |-> jobs, log |-> <<>>] } :
           /\ cell' = st.cell
           /\ jobs' = st.jobs
           /\ handled' = st.log
           /\ microtasks' = Enqueue(Tail(microtasks), "flush",
                                    jobs = {} /\ st.jobs # {})
    /\ records' = <<>>
    /\ initialSync' = <<>>
    /\ synced' = <<>>
    /\ registered' = <<>>
    /\ UNCHANGED << phase, tick, decls, attributeConfigMap, attr, targetRef,
                    watchers, watchOld, observer, isUpdatingDomFromRef,
                    timeouts, appWrites, extMutations >>

(***************************************************************************)
(* The environment: the application writes a cell; external code mutates   *)
(* an attribute of the element.                                            *)
(***************************************************************************)
Rendered == phase \in {"inert", "mounted", "unmounted"}

\* The declared type of the binding that uses ref r / attribute name; a ref
\* or an attribute that no declaration names is handled as text.
TypeOfRef(r) ==
    IF \E i \in DOMAIN decls : decls[i].ref = r
    THEN DeclType(decls[CHOOSE i \in DOMAIN decls : decls[i].ref = r])
    ELSE "string"

TypeOfName(name) ==
    IF \E i \in DOMAIN decls : decls[i].attribute = name
    THEN DeclType(decls[CHOOSE i \in DOMAIN decls : decls[i].attribute = name])
    ELSE "string"

\* ref.value = v by the application: a change triggers the ref's watchers.
AppWrite(r, v) ==
    /\ Rendered
    /\ appWrites + extMutations < MaxInputs
    /\ hasChanged(v, cell[r])
    /\ cell' = [cell EXCEPT ![r] = v]
    /\ jobs' = jobs \cup Triggered(attributeConfigMap, watchers, r)
    /\ microtasks' = Enqueue(microtasks, "flush", jobs' # {})
    /\ appWrites' = appWrites + 1
    /\ initialSync' = <<>>
    /\ synced' = <<>>
    /\ handled' = <<>>
    /\ registered' = <<>>
    /\ UNCHANGED << phase, tick, decls, attributeConfigMap, attr, targetRef,
                    watchers, watchOld, records, observer,
                    isUpdatingDomFromRef, timeouts, extMutations >>

\* element.setAttribute(name, v) or, for Null, element.removeAttribute(name)
\* by external code.  setAttribute queues a record even when the value is
\* the same; removing an absent attribute does nothing.
ExtMutate(name, v) ==
    /\ Rendered
    /\ appWrites + extMutations < MaxInputs
    /\ v # Null \/ attr[name] # Null
    /\ attr' = [attr EXCEPT ![name] = v]
    /\ records' = IF observer /\ LookupIndex(attributeConfigMap, name) # 0
                  THEN Append(records,
                              MutationRecord(name, attr[name], "external", v))
                  ELSE records
    /\ microtasks' = Enqueue(microtasks, "observer",
                             records = <<>> /\ records' # <<>>)
    /\ extMutations' = extMutations + 1
    /\ initialSync' = <<>>
    /\ synced' = <<>>
    /\ handled' = <<>>
    /\ registered' = <<>>
    /\ UNCHANGED << phase, tick, decls, attributeConfigMap, cell, targetRef,
                    watchers, watchOld, jobs, observer, isUpdatingDomFromRef,
                    timeouts, appWrites >>

\* The first binding is exercised with every value of its type, the second
\* one with a single text.
WritableValues(r) ==
    IF r = 1 THEN CellValues(TypeOfRef(r)) ELSE {Null, Str(NewText)}

MutableValues(name) ==
    IF name = "value" THEN AttrValues(TypeOfName(name))
    ELSE {Null, Str(DefaultText)}

AppWrites == \E r \in Refs : \E v \in WritableValues(r) : AppWrite(r, v)

ExtMutations ==
    \E name \in Names : \E v \in MutableValues(name) : ExtMutate(name, v)

Next ==
    \/ UseReflectAttribute
    \/ OnMountedBefore
    \/ OnMountedAfter
    \/ NextTick
    \/ OnUnmounted
    \/ FlushJobs
    \/ ObserverNotify
    \/ ClearFlag
    \/ AppWrites
    \/ ExtMutations

Spec == Init /\ [][Next]_vars

\* The event loop runs the scheduler's flush and the observer's notification
\* once they are queued, and every timer callback that is due; the
\* lifecycle and the environment are under no obligation.
Fairness ==
    /\ WF_vars(FlushJobs)
    /\ WF_vars(ObserverNotify)
    /\ WF_vars(ClearFlag)

FairSpec == Spec /\ Fairness

(***************************************************************************)
(* Registration alone, over cells that hold any kind of value: the refs    *)
(* are typed only statically, and makeAttributeConfigMap coerces what it   *)
(* finds in them.                                                          *)
(***************************************************************************)
UntypedValues ==
    { Null, Undefined, NaN, True, False, Num(0), Num(42),
      Str(EmptyText), Str(TextYes), Str(Text042), Str(TextAbc) }

InitRegistration ==
    /\ phase = "created"
    /\ tick \in {"before", "after"}
    /\ decls \in DeclLists
    /\ attributeConfigMap = <<>>
    /\ cell \in [Refs -> UntypedValues]
    /\ attr = [name \in Names |-> Null]
    /\ targetRef = TRUE
    /\ watchers = {}
    /\ watchOld = [i \in DOMAIN decls |-> Undefined]
    /\ jobs = {}
    /\ microtasks = <<>>
    /\ records = <<>>
    /\ observer = FALSE
    /\ isUpdatingDomFromRef = FALSE
    /\ timeouts = 0
    /\ initialSync = <<>>
    /\ synced = <<>>
    /\ handled = <<>>
    /\ registered = <<>>
    /\ appWrites = 0
    /\ extMutations = 0

NextRegistration == UseReflectAttribute

SpecRegistration == InitRegistration /\ [][NextRegistration]_vars

(***************************************************************************)
(* The composable left to itself, from the same untyped cells: lifecycle,  *)
(* flushes, observer notifications and timers, with no application write   *)
(* and no external mutation.                                               *)
(***************************************************************************)
NextUnattended ==
    \/ UseReflectAttribute
    \/ OnMountedBefore
    \/ OnMountedAfter
    \/ NextTick
    \/ OnUnmounted
    \/ FlushJobs
    \/ ObserverNotify
    \/ ClearFlag

SpecUnattended == InitRegistration /\ [][NextUnattended]_vars


(***************************************************************************)
(* Properties.                                                             *)
(***************************************************************************)
Entries(log) == { log[i] : i \in 1..Len(log) }

ConfigFor(name) == attributeConfigMap[LookupIndex(attributeConfigMap, name)]

\* The values a cell of a binding type is declared to hold.
InType(type, v) ==
    CASE type = "boolean" -> v.k = "boolean"
      [] type = "number" -> v.k \in {"number", "null"}
      [] OTHER -> v.k \in {"string", "null"}

\* The attribute state a cell value stands for: for a boolean binding only
\* the presence counts, otherwise absence for null / undefined and the
\* stringified value as content.
Reflects(type, raw, v) ==
    IF type = "boolean" THEN (raw # Null) <=> (v = True)
    ELSE IF v.k \in {"null", "undefined"} THEN raw = Null
    ELSE raw = Str(ToStringChars(v))

\* C1 as stated: a String binding with reflect enabled, cell "default text"
\* and authored attribute "NEW TEXT" ends the initial reconciliation with
\* cell "NEW TEXT" and attribute "NEW TEXT".
C1_AuthoredAttributeWins ==
    \A e \in Entries(initialSync) :
        ( /\ ConfigFor(e.attribute).type = "string"
          /\ ConfigFor(e.attribute).reflect
          /\ e.cellBefore = Str(DefaultText)
          /\ e.attrBefore = Str(NewText) )
        => (e.cellAfter = Str(NewText) /\ e.attrAfter = Str(NewText))

\* C1 amended: the initial reconciliation lets the cell win.  Whatever the
\* element carried, the attribute is left in the state the cell's value
\* stands for and the cell keeps its value; in the example the cell stays
\* "default text" and the attribute becomes "default text".
C1_CellWinsInitially ==
    \A e \in Entries(initialSync) :
        LET config == ConfigFor(e.attribute)
        IN  /\ Reflects(config.type, e.attrAfter, e.cellBefore)
            /\ attr[e.attribute] = e.attrAfter
            /\ InType(config.type, e.cellBefore) =>
                   (e.cellAfter = e.cellBefore /\ cell[config.ref] = e.cellBefore)
            /\ ( /\ config.type = "string"
                 /\ e.cellBefore = Str(DefaultText)
                 /\ e.attrBefore = Str(NewText) )
               => (e.cellAfter = Str(DefaultText) /\ e.attrAfter = Str(DefaultText))

\* C1 witness: the example's reconciliation has run.
C1_Witness ==
    \E e \in Entries(initialSync) :
        /\ ConfigFor(e.attribute).type = "string"
        /\ ConfigFor(e.attribute).reflect
        /\ e.cellBefore = Str(DefaultText)
        /\ e.attrBefore = Str(NewText)
        /\ cell[ConfigFor(e.attribute).ref] = Str(DefaultText)
        /\ attr[e.attribute] = Str(DefaultText)

\* C2: the record of a watcher's own DOM write never makes the observer
\* callback call onAttributeChange, nor assign the bound cell.
C2_NoFeedback ==
    \A e \in Entries(handled) :
        e.source = "watcher" => (~e.notified /\ ~e.assigned)

\* C3: a cell whose binding has reflect disabled changes only by the
\* registration-time coercion or by a write of the application.
C3_ReflectFalseOneWay ==
    [][ \A i \in 1..Len(attributeConfigMap) :
            ( /\ ~attributeConfigMap[i].reflect
              /\ cell'[attributeConfigMap[i].ref] # cell[attributeConfigMap[i].ref] )
            => appWrites' = appWrites + 1 ]_vars

\* C3 witness: the observer has handled an external mutation of a
\* reflect-disabled binding whose interpreted value differs from the cell.
C3_Witness ==
    \E e \in Entries(handled) :
        /\ e.source = "external"
        /\ ~ConfigFor(e.attribute).reflect
        /\ e.attribute = "value"
        /\ e.interpreted # cell[ConfigFor(e.attribute).ref]

\* C4: every external mutation that changes the attribute's raw value is
\* reported by onAttributeChange when its record is handled.
C4_ExternalChangeReported ==
    \A e \in Entries(handled) :
        (e.source = "external" /\ e.before # e.written) => e.notified

\* C5: every onAttributeChange call passes the raw value right before the
\* mutation it reports as oldValue and the raw value right after it as
\* newValue.
C5_CallCarriesChange ==
    \A e \in Entries(handled) :
        e.notified => (e.oldValue = e.before /\ e.newValue = e.written)


\* The number a raw attribute value stands for: null when the attribute is
\* absent or its content does not parse.
ParsedNumber(raw) ==
    IF raw = Null THEN Null
    ELSE IF ToNumber(raw).k = "nan" THEN Null ELSE ToNumber(raw)

\* C6: once the observer has handled a record of a Number binding with
\* reflect enabled, the cell holds the number parsed from the attribute, or
\* null; never anything but a number or null.
C6_NumberParsedInbound ==
    \A e \in Entries(handled) :
        LET config == ConfigFor(e.attribute)
        IN  (config.type = "number" /\ config.reflect)
            => /\ cell[config.ref] = ParsedNumber(attr[e.attribute])
               /\ cell[config.ref].k \in {"number", "null"}

\* The initial reconciliation is done, the component is mounted, and no
\* watcher job and no mutation record is pending.
Settled ==
    /\ phase = "mounted"
    /\ observer
    /\ jobs = {}
    /\ records = <<>>

\* Settled, with the self-write flag clear.
Quiescent == Settled /\ ~isUpdatingDomFromRef /\ timeouts = 0

\* C7: for every Boolean binding, whenever nothing is pending the element
\* has the attribute iff the cell is true.  Stated for the bindings with
\* reflect enabled, the ones the element may never diverge from.
C7_BooleanPresence ==
    \A i \in 1..Len(attributeConfigMap) :
        LET config == attributeConfigMap[i]
        IN  (config.type = "boolean" /\ config.reflect /\ Settled)
            => (HasAttribute(attr[config.attribute]) <=> cell[config.ref] = True)

\* C8: for every String or Number binding with reflect enabled, in every
\* quiescent state the attribute is absent iff the cell is null, and when
\* present the cell is its content (String) or its numeric parse (Number).
C8_QuiescentConsistency ==
    \A i \in 1..Len(attributeConfigMap) :
        LET config == attributeConfigMap[i]
            raw == attr[config.attribute]
            v == cell[config.ref]
        IN  (config.reflect /\ config.type # "boolean" /\ Quiescent)
            => /\ (raw = Null) <=> (v = Null)
               /\ raw # Null =>
                      v = IF config.type = "number" THEN ParsedNumber(raw)
                          ELSE raw

IsLastFor(i) ==
    \A j \in (i + 1)..Len(handled) : handled[j].attribute # handled[i].attribute

C11_NoSyncAfterUnmount ==
    [][ phase' = "unmounted"
        => /\ ~observer'
           /\ watchers' = {}
           /\ phase = "unmounted"
              => /\ attr' # attr => extMutations' = extMutations + 1
                 /\ cell' # cell => appWrites' = appWrites + 1
                 /\ \A e \in Entries(handled') : ~e.notified ]_vars


\* The value a raw attribute state stands for under a binding type:
\* presence for Boolean, the content or null for String, the parsed number
\* or null for Number.
Interpreted(type, raw) ==
    CASE type = "boolean" -> Bool(HasAttribute(raw))
      [] type = "number" -> ParsedNumber(raw)
      [] OTHER -> raw

\* With tick 'before', the observer has just handled its first batch: every
\* mutation external code has made since mount, and the application has
\* written no cell.
FirstBatchAfterMount ==
    /\ tick = "before"
    /\ phase = "mounted"
    /\ appWrites = 0
    /\ handled # <<>>
    /\ Len(handled) = extMutations
    /\ \A e \in Entries(handled) : e.source = "external"

\* C12: with tick 'before', once the observer has handled the attributes
\* external code set right after mount, each mutated binding's cell holds
\* the value interpreted from its attribute when reflect is enabled and its
\* original value when reflect is disabled, every attribute has the value
\* written last, and the flush that follows changes no attribute and no
\* cell.
C12_TickBeforeKeepsExternal ==
    [][ /\ FirstBatchAfterMount'
           => /\ \A k \in 1..Len(attributeConfigMap) :
                     LET config == attributeConfigMap[k]
                     IN  (\E e \in Entries(handled') :
                              e.attribute = config.attribute)
                         => cell'[config.ref] =
                                IF config.reflect
                                THEN Interpreted(config.type,
                                                 attr'[config.attribute])
                                ELSE watchOld'[k]
              /\ \A i \in 1..Len(handled') :
                     (\A j \in (i + 1)..Len(handled') :
                          handled'[j].attribute # handled'[i].attribute)
                     => attr'[handled'[i].attribute] = handled'[i].written
        /\ (FirstBatchAfterMount /\ jobs # {} /\ jobs' = {})
           => (attr' = attr /\ cell' = cell) ]_vars


\* C13: with tick 'after', when the deferred initial reconciliation has run
\* on a mounted component whose cells the application has not written,
\* every bound attribute is in the state its cell's original value stands
\* for, whatever external code wrote to it since mount, and every cell
\* still holds its original value, with reflect enabled or disabled.
C13_TickAfterCellsWin ==
    (tick = "after" /\ phase = "mounted" /\ appWrites = 0)
    => \A e \in Entries(initialSync) :
           LET config == ConfigFor(e.attribute)
           IN  /\ Reflects(config.type, attr[e.attribute], e.cellBefore)
               /\ cell[config.ref] = e.cellBefore

\* C13 witness: the deferred reconciliation has removed content that
\* external code wrote after mount to the attribute of a reflect-enabled
\* String binding whose cell is null, and the cell is still null.
C13_Witness ==
    /\ tick = "after"
    /\ phase = "mounted"
    /\ appWrites = 0
    /\ extMutations > 0
    /\ \E e \in Entries(initialSync) :
           /\ ConfigFor(e.attribute).reflect
           /\ ConfigFor(e.attribute).type = "string"
           /\ e.cellBefore = Null
           /\ e.attrBefore = Str(DefaultText)
           /\ attr[e.attribute] = Null
           /\ cell[ConfigFor(e.attribute).ref] = Null


\* A declaration that names both its attribute and its cell.
Declared(d) == d.attribute # "" /\ d.ref # 0

\* C14: registration builds one binding for each declaration that names
\* both its attribute and its cell, with that declaration's fields, and
\* none for the others, whose cells it leaves alone; and when no declaration
\* is valid, no observer and no watcher ever exists, the observer callback
\* never runs, and the attributes change only by external mutations and the
\* cells only by application writes.
C14_InvalidDeclarationsSkipped ==
    [][ /\ phase = "created"
           => /\ Len(attributeConfigMap') =
                     Cardinality({ i \in DOMAIN decls : Declared(decls[i]) })
              /\ \A i \in DOMAIN decls :
                     Declared(decls[i])
                     => \E k \in 1..Len(attributeConfigMap') :
                            attributeConfigMap'[k] =
                                [attribute |-> decls[i].attribute,
                                 ref |-> decls[i].ref,
                                 type |-> DeclType(decls[i]),
                                 reflect |-> decls[i].reflect # "false"]
              /\ \A r \in Refs :
                     (\A i \in DOMAIN decls :
                          Declared(decls[i]) => decls[i].ref # r)
                     => cell'[r] = cell[r]
              /\ (\A i \in DOMAIN decls : ~Declared(decls[i]))
                     => phase' = "inert"
        /\ phase = "inert"
           => /\ phase' = "inert"
              /\ ~observer' /\ watchers' = {} /\ jobs' = {}
              /\ microtasks' = <<>> /\ timeouts' = 0
              /\ handled' = <<>> /\ synced' = <<>> /\ initialSync' = <<>>
              /\ attr' # attr => extMutations' = extMutations + 1
              /\ cell' # cell => appWrites' = appWrites + 1 ]_vars

\* C14 witness: a declaration without attribute name was skipped and the
\* other declaration's binding is synchronized: its watcher has written the
\* attribute.
C14_Witness ==
    /\ \E i \in DOMAIN decls : ~Declared(decls[i])
    /\ Len(attributeConfigMap) = 1
    /\ \E e \in Entries(synced) : e.attribute = "other" /\ e.wrote

\* C14 witness, no valid declaration: external code has mutated the element
\* and the application has written a cell, and nothing is registered.
C14_InertWitness ==
    /\ \A i \in DOMAIN decls : ~Declared(decls[i])
    /\ phase = "inert"
    /\ extMutations > 0
    /\ appWrites > 0
    /\ attr["other"] # Null
    /\ cell[2] # Null


\* JavaScript truthiness: everything but "", 0, NaN, null, undefined, false.
Truthy(v) ==
    Bool(v \notin {Str(EmptyText), Num(0), NaN, Null, Undefined, False})

\* C15: registration replaces the cell of a Boolean binding by its
\* truthiness ("yes" becomes true) and the cell of a Number binding by the
\* number it converts to ("042" becomes 42), or by null when it converts to
\* no number ("abc"), unless the cell holds a boolean, null or undefined;
\* those cells, and the cells of String bindings, keep their value.
C15_CoercionOnRegistration ==
    \A e \in Entries(registered) :
        LET v == e.before
            exempt == v.k \in {"boolean", "null", "undefined"}
        IN  /\ (e.type = "boolean" /\ ~exempt) => e.after = Truthy(v)
            /\ (e.type = "number" /\ ~exempt)
               => e.after = IF ToNumber(v).k = "nan" THEN Null
                            ELSE ToNumber(v)
            /\ (e.type = "string" \/ exempt) => e.after = v
            /\ (e.type = "boolean" /\ v = Str(TextYes)) => e.after = True
            /\ (e.type = "number" /\ v = Str(Text042)) => e.after = Num(42)
            /\ (e.type = "number" /\ v = Str(TextAbc)) => e.after = Null

\* C15 witness: registration has turned the "yes" in the cell of a Boolean
\* binding into true and left the number in the cell of a String binding
\* alone.
C15_Witness ==
    /\ \E e \in Entries(registered) :
           /\ e.type = "boolean"
           /\ e.before = Str(TextYes)
           /\ e.after = True
           /\ cell[1] = True
    /\ \E e \in Entries(registered) :
           /\ e.type = "string"
           /\ e.before = Num(42)
           /\ e.after = Num(42)
           /\ cell[2] = Num(42)


\* C16: whenever the observer handles a record that a watcher's DOM write
\* produced, the self-write flag is set and a deferred clear is still
\* pending, so the record is not reported through onAttributeChange; also
\* when an earlier write's deferred clear is pending at a later write.
C16_MarkerCoversSelfWrite ==
    \A e \in Entries(handled) :
        e.source = "watcher"
        => /\ e.flag
           /\ ~e.notified
           /\ isUpdatingDomFromRef
           /\ timeouts > 0

\* C16 witness: the observer has handled the record of a watcher's write
\* made while the deferred clear of an earlier write was still pending.
C16_Witness ==
    /\ timeouts >= 2
    /\ \E e \in Entries(handled) :
           /\ e.source = "watcher"
           /\ e.flag
           /\ e.before # e.written


\* C17: the initial reconciliation leaves no mutation record behind, the
\* observer never handles a record of an initial push, and when the flush
\* that follows the reconciliation runs the watcher of a cell that the
\* initial pull assigned, that watcher writes no attribute.
C17_InitialSyncSilent ==
    [][ /\ initialSync' # <<>> => records' = <<>>
        /\ \A e \in Entries(handled') : e.source # "initial"
        /\ initialSync # <<>>
           => \A e \in Entries(synced') : ~e.wrote ]_vars


\* C18: a watcher callback that finds the element reference null, or the
\* attribute already in the state its cell's value stands for, writes
\* nothing; and a flush in which no watcher writes leaves every attribute,
\* the self-write flag, the pending deferred clears and the observer's
\* records as they were, each writing callback scheduling exactly one
\* deferred clear.
C18_OutboundIdempotent ==
    [][ /\ \A e \in Entries(synced') :
               ( \/ ~e.attached
                 \/ Reflects(ConfigFor(e.attribute).type, e.before,
                             e.newValue) )
               => /\ ~e.wrote
                  /\ e.after = e.before
                  /\ attr'[e.attribute] = attr[e.attribute]
        /\ synced' # <<>>
           => /\ timeouts' = timeouts
                     + Cardinality({ i \in 1..Len(synced') : synced'[i].wrote })
              /\ (\A e \in Entries(synced') : ~e.wrote)
                 => /\ attr' = attr
                    /\ isUpdatingDomFromRef' = isUpdatingDomFromRef
                    /\ records' = records ]_vars

\* C18 witness: a watcher has run for a cell set to 42 while the attribute
\* already was "42", and has written nothing: the flag is clear and no
\* deferred clear is pending.
C18_Witness ==
    /\ \E e \in Entries(synced) :
           /\ e.attached
           /\ ~e.wrote
           /\ e.newValue = Num(42)
           /\ e.before = Str(Text42)
           /\ attr[e.attribute] = Str(Text42)
    /\ ~isUpdatingDomFromRef
    /\ timeouts = 0
    /\ records = <<>>

\* C18 witness, null element: a watcher that outlived its component has run
\* for a new cell value and has left the attribute alone.
C18_DetachedWitness ==
    /\ phase = "unmounted"
    /\ \E e \in Entries(synced) :
           /\ ~e.attached
           /\ ~e.wrote
           /\ ~Reflects(ConfigFor(e.attribute).type, attr[e.attribute],
                        e.newValue)
    /\ ~isUpdatingDomFromRef
    /\ timeouts = 0


\* C19: the self-write flag is clear initially; it becomes set only in a
\* flush in which a watcher writes the DOM, and every such write sets it;
\* whenever it is set it is eventually clear again; and while it is clear
\* no deferred clear or other step sets it, only the next watcher write.
C19_MarkerLiveness ==
    /\ ~isUpdatingDomFromRef
    /\ [][ /\ (~isUpdatingDomFromRef /\ isUpdatingDomFromRef')
              => \E e \in Entries(synced') : e.wrote
           /\ (\E e \in Entries(synced') : e.wrote)
              => isUpdatingDomFromRef' ]_vars
    /\ (isUpdatingDomFromRef ~> ~isUpdatingDomFromRef)

\* C19 witness: after two watcher writes the first deferred clear has run:
\* the flag is clear while the second clear is still pending.
C19_Witness ==
    /\ phase = "mounted"
    /\ ~isUpdatingDomFromRef
    /\ timeouts = 1


\* C20: as long as no external code has mutated the element, the observer
\* assigns no cell, so a cell that the application wrote holds what the
\* application wrote last; and at quiescence every bound attribute is in
\* the state its cell's value stands for.
C20_NoLostApplicationWrite ==
    extMutations = 0
    => /\ \A e \in Entries(handled) : ~e.assigned
       /\ Quiescent
          => \A k \in 1..Len(attributeConfigMap) :
                 LET config == attributeConfigMap[k]
                 IN  Reflects(config.type, attr[config.attribute],
                              cell[config.ref])


\* C21: on a mounted component whose initial reconciliation has run, the
\* watchers and the observer trigger each other only finitely often: from
\* some point on the system is quiescent, with no watcher job queued, no
\* mutation record pending, no microtask left, the self-write flag clear
\* and no deferred clear pending, for String, Boolean and Number bindings.
C21_Convergence ==
    <>[]((phase = "mounted" /\ observer)
         => (Quiescent /\ microtasks = <<>>))

\* C21 witness: after an external mutation the observer has assigned the
\* cell of a reflect-enabled binding, the watcher this triggered has run
\* and found nothing to write, and the system is quiescent.
C21_Witness ==
    /\ Quiescent
    /\ microtasks = <<>>
    /\ extMutations > 0
    /\ \E e \in Entries(synced) :
           /\ ConfigFor(e.attribute).reflect
           /\ e.attached
           /\ ~e.wrote
           /\ e.before # Null

====
